---- MODULE Spec2Model ----
(***************************************************************************)
(* gnucash-qif-import: the import driver (import.py) and the MTP source    *)
(* reader (mtp.py), modelled as a state machine over repeated runs of      *)
(* main().  Persistent state is the GnuCash file and the JSON cache file;  *)
(* everything else is the state of the run in progress.                    *)
(*                                                                         *)
(* Representation of text:                                                 *)
(*   - an amount text is the sequence of its characters;                   *)
(*   - a colon-delimited account name is the sequence of its segments;     *)
(*   - a file name is the sequence of its "/"-separated components, and a  *)
(*     source argument "mtp:<PATTERN>" is <<"mtp:", PATTERN>>;             *)
(*   - a datetime is <<year, month, day, hour>>.                           *)
(***************************************************************************)
EXTENDS Integers, Sequences, FiniteSets, Bags, TLC

(***************************************************************************)
(* Bounds of the model.                                                    *)
(***************************************************************************)
\* number of invocations of main() explored
MaxRuns == 2
\* number of positional "file" arguments of one invocation
MaxFiles == 2

\* entries handed to write_transactions_to_gnucash when it is explored alone
MaxItems == 2

(***************************************************************************)
(* Text helpers.                                                           *)
(***************************************************************************)
Digit == <<"0", "1", "2", "3", "4", "5", "6", "7", "8", "9">>

IsDigit(c) == \E d \in 1..10 : Digit[d] = c

DigitVal(c) == (CHOOSE d \in 1..10 : Digit[d] = c) - 1

\* str.replace(old, new) for one-character old and new
Replace(s, old, new) == [i \in 1..Len(s) |-> IF s[i] = old THEN new ELSE s[i]]

RECURSIVE Pow10(_)
Pow10(n) == IF n = 0 THEN 1 ELSE 10 * Pow10(n - 1)

RECURSIVE DigitsValue(_)
\* the number a sequence of digit characters denotes
DigitsValue(ds) ==
    IF ds = <<>> THEN 0
    ELSE 10 * DigitsValue(SubSeq(ds, 1, Len(ds) - 1)) + DigitVal(ds[Len(ds)])

\* decimal.Decimal(text): [ok, sign, coeff, scale], the value being
\* sign * coeff / 10^scale; ok = FALSE stands for InvalidOperation
Decimal(text) ==
    LET signed == Len(text) > 0 /\ text[1] \in {"-", "+"}
        body   == IF signed THEN Tail(text) ELSE text
        dots   == {i \in 1..Len(body) : body[i] = "."}
        ds     == SelectSeq(body, IsDigit)
        valid  == /\ Cardinality(dots) <= 1
                  /\ Len(ds) >= 1
                  /\ Len(ds) + Cardinality(dots) = Len(body)
    IN  IF ~valid
        THEN [ok |-> FALSE, sign |-> 1, coeff |-> 0, scale |-> 0]
        ELSE [ok    |-> TRUE,
              sign  |-> IF signed /\ text[1] = "-" THEN -1 ELSE 1,
              coeff |-> DigitsValue(ds),
              scale |-> IF dots = {} THEN 0
                        ELSE Len(body) - (CHOOSE i \in dots : TRUE)]

(***************************************************************************)
(* Dates.  QIF dates and --date-from are parsed to midnight datetimes.     *)
(***************************************************************************)
\* datetime.strptime(text, '%Y-%m-%d') of the text "y-m-d", given as <<y, m, d>>
Strptime(ymd) == <<ymd[1], ymd[2], ymd[3], 0>>

\* dt.strftime('%Y-%m-%d')
Strftime(dt) == <<dt[1], dt[2], dt[3]>>

\* a < b on datetimes
DateLess(a, b) ==
    \E i \in 1..4 : a[i] < b[i] /\ \A j \in 1..(i - 1) : a[j] = b[j]

(***************************************************************************)
(* The ledger collaborator (GnuCash), by the operations import.py uses.    *)
(* An account is identified by its full path below the root account; a     *)
(* book is [accounts, transactions], transactions being a bag of           *)
(* [date, description, splits, by_importer]; by_importer records that      *)
(* add_transaction built the transaction.                                  *)
(***************************************************************************)
Root == <<"Root Account">>

\* Account.get_instance() is None
NoAccount == <<>>

IsPrefix(p, q) == Len(p) <= Len(q) /\ SubSeq(q, 1, Len(p)) = p

\* Account.lookup_by_name(name): an account of that name among the
\* descendants of acc, the immediate children first
LookupByNameMissingGivesParent(accounts, acc, name) ==
    LET children    == {a \in accounts : Len(a) = Len(acc) + 1 /\ IsPrefix(acc, a)
                                          /\ a[Len(a)] = name}
        descendants == {a \in accounts : Len(a) > Len(acc) /\ IsPrefix(acc, a)
                                          /\ a[Len(a)] = name}
    IN  IF children # {} THEN CHOOSE a \in children : TRUE
        ELSE IF descendants # {} THEN CHOOSE a \in descendants : TRUE
        ELSE acc

lookup_by_name(accounts, acc, name) ==
    LET children    == {a \in accounts : Len(a) = Len(acc) + 1 /\ IsPrefix(acc, a)
                                          /\ a[Len(a)] = name}
        descendants == {a \in accounts : Len(a) > Len(acc) /\ IsPrefix(acc, a)
                                          /\ a[Len(a)] = name}
    IN  IF children # {} THEN CHOOSE a \in children : TRUE
        ELSE IF descendants # {} THEN CHOOSE a \in descendants : TRUE
        ELSE NoAccount

RECURSIVE lookup_account_by_path(_, _, _)
\* NoAccount stands for the raised 'Account path ... not found'
lookup_account_by_path(accounts, root, path) ==
    LET acc == lookup_by_name(accounts, root, path[1])
    IN  IF acc = NoAccount THEN NoAccount
        ELSE IF Len(path) > 1 THEN lookup_account_by_path(accounts, acc, Tail(path))
        ELSE acc

\* name.split(':') is the segment sequence itself
lookup_account(accounts, root, name) == lookup_account_by_path(accounts, root, name)

\* commod_tab.lookup('ISO4217', currency).get_fraction()
GetFraction(currency) ==
    CASE currency = "EUR" -> 100
      [] currency = "USD" -> 100
      [] currency = "JPY" -> 1

GncNumeric(num, denom) == [num |-> num, denom |-> denom]

\* GncNumeric.equal: equality of the rational values
GncEqual(a, b) == a.num * b.denom = b.num * a.denom

\* int(x) of the decimal sign * magnitude / 10^scale rounding to floor
\* instead of truncating toward zero
IntOfFloor(sign, magnitude, scale) == (sign * magnitude) \div Pow10(scale)

\* int(x): truncation toward zero
IntOf(sign, magnitude, scale) == sign * (magnitude \div Pow10(scale))

\* Decimal(item.split_amount.replace(',', '.'))
ItemAmount(item) == Decimal(Replace(item.split_amount, ",", "."))

\* to_gnc_numeric without the factor "positive": both splits get the same sign
ToGncNumericIgnoresSign(item, currency, positive) ==
    LET item_amount == ItemAmount(item)
    IN  GncNumeric(IntOf(item_amount.sign,
                         item_amount.coeff * GetFraction(currency),
                         item_amount.scale),
                   GetFraction(currency))

\* to_gnc_numeric(item, currency, positive); defined when ItemAmount(item).ok
to_gnc_numeric(item, currency, positive) ==
    LET item_amount == ItemAmount(item)
        amount == IntOf(item_amount.sign,
                        item_amount.coeff * GetFraction(currency),
                        item_amount.scale)
    IN  GncNumeric(amount * positive, GetFraction(currency))

RECURSIVE SumNum(_, _)
SumNum(splits, acc) ==
    IF splits = <<>> THEN 0
    ELSE (IF splits[1].account = acc THEN splits[1].value.num ELSE 0)
         + SumNum(Tail(splits), acc)

\* Transaction.GetAccountAmount(acc): the sum of the transaction's splits in acc
GetAccountAmount(tx, acc) == GncNumeric(SumNum(tx.splits, acc), tx.splits[1].value.denom)

HasSplitIn(tx, acc) == \E i \in 1..Len(tx.splits) : tx.splits[i].account = acc

\* Account.FindTransByDesc(desc): GnuCash walks the account's splits from the
\* last (latest posted) backwards and returns the first transaction with that
\* description; the set holds the transactions it can return (one of the
\* latest posted; empty when it returns None)
FindTransByDesc(book, acc, desc) ==
    LET found == {t \in BagToSet(book.transactions) :
                     HasSplitIn(t, acc) /\ t.description = desc}
    IN  {t \in found : \A u \in found : ~DateLess(t.date, u.date)}

(***************************************************************************)
(* Entries (qif.QifItem) and the engine's pure parts.                      *)
(***************************************************************************)
Entry(date, memo, account, split_category, split_amount) ==
    [date |-> date, memo |-> memo, account |-> account,
     split_category |-> split_category, split_amount |-> split_amount]

\* QifItem.as_tuple(): the tuple of the entry's fields
as_tuple(item) ==
    <<item.date, item.memo, item.account, item.split_category, item.split_amount>>

\* the date test of the loop, skipping also the entries dated date_from
DateFilteredInclusive(item, date_from) ==
    /\ date_from # <<>>
    /\ ~DateLess(Strptime(date_from), item.date)

\* the date test with a floor applied also when --date-from is not given
DateFilteredDefaultFloor(item, date_from) ==
    DateLess(item.date, Strptime(IF date_from # <<>> THEN date_from ELSE <<2023, 1, 5>>))

\* "if date_from and item.date < date_from"; date_from = <<>> is None
DateFiltered(item, date_from) ==
    /\ date_from # <<>>
    /\ DateLess(item.date, Strptime(date_from))

\* item_already_in_book without its account lookup: the results it can give
\* for the transactions FindTransByDesc can return
ItemAlreadyInBook(book, acc, item, currency) ==
    LET txs == FindTransByDesc(book, acc, item.memo)
    IN  IF txs = {} THEN {FALSE}
        ELSE {/\ Strftime(transaction.date) = Strftime(item.date)
              /\ GncEqual(GetAccountAmount(transaction, acc),
                          to_gnc_numeric(item, currency, 1)) : transaction \in txs}

\* item_already_in_book raises: the account lookup fails, or the amount text
\* is no decimal when the found transaction's day matches
ItemAlreadyInBookRaises(book, item) ==
    LET acc == lookup_account(book.accounts, Root, item.account)
    IN  \/ acc = NoAccount
        \/ /\ ~ItemAmount(item).ok
           /\ \E transaction \in FindTransByDesc(book, acc, item.memo) :
                 Strftime(transaction.date) = Strftime(item.date)

\* the in-run test dropped
InRunDuplicateNever(item, imported_items_) == FALSE

\* "item.as_tuple() in imported_items"
InRunDuplicate(item, imported_items_) == as_tuple(item) \in imported_items_

\* add_transaction raises: the amount text is no decimal, or the
\* split_category lookup fails (the account lookup succeeded before)
AddTransactionRaises(book, item) ==
    \/ ~ItemAmount(item).ok
    \/ lookup_account(book.accounts, Root, item.split_category) = NoAccount

\* the transaction add_transaction builds and commits
NewTransaction(book, item, currency) ==
    [date        |-> item.date,
     description |-> item.memo,
     splits      |-> << [account |-> lookup_account(book.accounts, Root, item.account),
                         value   |-> to_gnc_numeric(item, currency, 1)],
                        [account |-> lookup_account(book.accounts, Root, item.split_category),
                         value   |-> to_gnc_numeric(item, currency, -1)] >>,
     by_importer |-> TRUE]

add_transaction(book, item, currency) ==
    [book EXCEPT !.transactions = @ (+) SetToBag({NewTransaction(book, item, currency)})]

\* the ledger file after the end of the loop, session.save() left out
SessionSaveNever(dry_run, file, book) == file

\* the ledger file after the end of the loop, saving also on a dry run
SessionSaveAlways(dry_run, file, book) == book

\* "if dry_run: ... else: session.save()": the ledger file after it
SessionSave(dry_run, file, book) == IF dry_run THEN file ELSE book

\* tx.CommitEdit() writing the book through to the file
CommitEditWritesThrough(file, book) == book

\* the ledger file after tx.CommitEdit(): the edit stays in the session
CommitEdit(file, book) == file

\* the cache file written also on a dry run
CacheDumpAlways(dry_run, file, imported_) == [exists |-> TRUE, ids |-> imported_]

\* "if not args.dry_run: json.dump(list(imported), fd)": the cache file after it
CacheDump(dry_run, file, imported_) ==
    IF dry_run THEN file ELSE [exists |-> TRUE, ids |-> imported_]

\* the run starting from an empty set whatever the cache file holds
CacheLoadEmpty(file) == {}

\* "set(json.load(fd))" when the file exists, else set()
CacheLoad(file) == IF file.exists THEN file.ids ELSE {}

(***************************************************************************)
(* Sources.                                                                *)
(***************************************************************************)
MTP_SCHEME == "mtp:"

\* fn.startswith(MTP_SCHEME)
StartsWithMtp(fn) == Len(fn) > 0 /\ fn[1] = MTP_SCHEME

\* os.path.basename(fn)
Basename(fn) == <<fn[Len(fn)]>>

\* "base = os.path.basename(fn); if base in imported"
AlreadyImported(fn, imported_) == Basename(fn) \in imported_

(***************************************************************************)
(* The environment the runs are explored in: the files on disk, the files  *)
(* on the MTP device, the account tree of the GnuCash file.                *)
(***************************************************************************)
Checking == <<"Assets", "Checking">>
Food     == <<"Expenses", "Food">>

coffee5    == Entry(<<2023, 1, 5, 0>>, "Coffee", Checking, Food, <<"-", "3", ".", "5", "0">>)
coffee6    == Entry(<<2023, 1, 6, 0>>, "Coffee", Checking, Food, <<"-", "3", ".", "5", "0">>)
coffee5c   == Entry(<<2023, 1, 5, 0>>, "Coffee", Checking, Food, <<"-", "3", ",", "5", "0">>)
rent4      == Entry(<<2023, 1, 4, 0>>, "Rent", Checking, <<"Expenses", "Rent">>,
                    <<"1", "2", ".", "3", "4">>)
nocat      == Entry(<<2023, 1, 5, 0>>, "Coffee", Checking, <<"Expenses", "Nope">>,
                    <<"-", "3", ".", "5", "0">>)
old_noacct == Entry(<<2023, 1, 4, 0>>, "Fee", <<"Assets", "Savings">>, Food,
                    <<"0", ".", "9", "9">>)

\* the files on disk: whether open(fn) succeeds, whether qif.parse_qif(fd)
\* succeeds, and the entries it returns
FileNames == { <<"a.qif">>, <<"d", "a.qif">>, <<"b.qif">>, <<"bad.qif">>, <<"c.qif">> }

Disk(fn) ==
    CASE fn = <<"a.qif">>      -> [exists |-> TRUE, parses |-> TRUE,
                                   items |-> <<rent4, coffee5, coffee5>>]
      [] fn = <<"d", "a.qif">> -> [exists |-> TRUE, parses |-> TRUE,
                                   items |-> <<rent4, coffee5, coffee6>>]
      [] fn = <<"b.qif">>      -> [exists |-> TRUE, parses |-> TRUE,
                                   items |-> <<coffee5c, nocat, old_noacct>>]
      [] fn = <<"bad.qif">>    -> [exists |-> TRUE, parses |-> FALSE, items |-> <<>>]
      [] OTHER                 -> [exists |-> FALSE, parses |-> FALSE, items |-> <<>>]

\* the (file_id, filename) pairs get_mtp_files() yields, in device order
MtpFiles == << <<"1", <<"notes.txt">> >>, <<"2", <<"a.qif">> >>, <<"3", <<"e.qif">> >> >>

MtpPatterns == {".*qif", "zzz.*"}

\* regex.match(filename) for the patterns above
RegexMatch(pattern, filename) ==
    /\ pattern = ".*qif"
    /\ filename \in { <<"a.qif">>, <<"e.qif">> }

Sources == FileNames \cup { <<MTP_SCHEME, p>> : p \in MtpPatterns }

AccountTree ==
    { Root \o p : p \in { <<"Assets">>, Checking, <<"Expenses">>, Food,
                          <<"Expenses", "Rent">> } }

AccountNames == { a[Len(a)] : a \in AccountTree }

\* a transaction entered by hand in GnuCash (posted at 10:59)
ManualCoffee ==
    [date        |-> <<2023, 1, 5, 10>>,
     description |-> "Coffee",
     splits      |-> << [account |-> Root \o Checking, value |-> GncNumeric(-350, 100)],
                        [account |-> Root \o Food, value |-> GncNumeric(350, 100)] >>,
     by_importer |-> FALSE]

InitialLedgers ==
    { [accounts |-> AccountTree, transactions |-> EmptyBag],
      [accounts |-> AccountTree, transactions |-> SetToBag({ManualCoffee})] }

\* the command lines explored: args.file, args.dry_run, args.date_from
\* (<<>> when not given), args.currency
FileLists == UNION { [1..n -> Sources] : n \in 1..MaxFiles }

Args ==
    [file : FileLists, dry_run : BOOLEAN, date_from : { <<>>, <<2023, 1, 5>> },
     currency : {"EUR"}]

RECURSIVE read_entries_from_mtp(_, _, _)
\* read_entries_from_mtp over the files the device lists: mtp.py imports
\* neither logging nor qif, so the logging.debug call for the first matching
\* filename raises NameError, before the cache test and the retrieval
read_entries_from_mtp(files, pattern, imported_) ==
    IF files = <<>>
    THEN [raised |-> FALSE, entries |-> <<>>, imported |-> imported_]
    ELSE IF RegexMatch(pattern, files[1][2])
         THEN [raised |-> TRUE, entries |-> <<>>, imported |-> imported_]
         ELSE read_entries_from_mtp(Tail(files), pattern, imported_)

(***************************************************************************)
(* State.                                                                  *)
(***************************************************************************)
VARIABLES
    ledgerFile,      \* the saved GnuCash file: a book
    cacheFile,       \* ~/.gnucash-qif-import-cache.json: [exists, ids]
    pc,              \* "idle", "reading", "writing", "caching", "done", "failed"
    args,            \* the arguments of the run
    imported,        \* main's set of imported source names
    all_items,       \* main's list of collected entries
    fileIdx,         \* position in args.file
    book,            \* session.book
    session,         \* [opens, saves, ends]: calls on the Session of this run
    imported_items,  \* the in-run set of write_transactions_to_gnucash
    itemIdx,         \* position in all_items
    outcome,         \* per processed entry: "date", "book", "run", "posted"
    readLog,         \* per read_entries call on a file: [fn, recorded, result,
                     \* opened, n]; recorded: fn was in imported at the call
    error,           \* the exception that ended the run, "" if none
    runs,            \* number of runs started
    repeated,        \* the run repeats the command line of the run before, which
                     \* completed
    dateSkipped,     \* <<source, entry>> pairs the run before skipped by the date
                     \* filter, when this run repeats it without --date-from
    startLedger,     \* ledgerFile when the run started
    startCache       \* cacheFile when the run started

vars == <<ledgerFile, cacheFile, pc, args, imported, all_items, fileIdx, book,
          session, imported_items, itemIdx, outcome, readLog, error, runs,
          repeated, dateSkipped, startLedger, startCache>>

persistent == <<ledgerFile, cacheFile>>

NoArgs == [file |-> <<>>, dry_run |-> FALSE, date_from |-> <<>>, currency |-> "EUR"]

NoSession == [opens |-> 0, saves |-> 0, ends |-> 0]

\* session.book while no session is open
NoBook == [accounts |-> {}, transactions |-> EmptyBag]

Init ==
    /\ ledgerFile \in InitialLedgers
    /\ cacheFile = [exists |-> FALSE, ids |-> {}]
    /\ pc = "idle"
    /\ args = NoArgs
    /\ imported = {}
    /\ all_items = <<>>
    /\ fileIdx = 0
    /\ book = NoBook
    /\ session = NoSession
    /\ imported_items = {}
    /\ itemIdx = 0
    /\ outcome = <<>>
    /\ readLog = <<>>
    /\ error = ""
    /\ runs = 0
    /\ repeated = FALSE
    /\ dateSkipped = {}
    /\ startLedger = ledgerFile
    /\ startCache = cacheFile

Running == pc \in {"reading", "writing", "caching"}

\* the run ends with an exception: nothing more of main is executed
Raise(e) ==
    /\ pc' = "failed"
    /\ error' = e

(***************************************************************************)
(* main, lines 140-157: a new invocation; the cache file is loaded.        *)
(***************************************************************************)
\* the state of main at line 158, started with the arguments a
Started(a) ==
    /\ args' = a
    /\ runs' = runs + 1
    /\ pc' = "reading"
    /\ imported' = CacheLoad(cacheFile)
    /\ all_items' = <<>>
    /\ fileIdx' = 1
    /\ book' = NoBook
    /\ session' = NoSession
    /\ imported_items' = {}
    /\ itemIdx' = 0
    /\ outcome' = <<>>
    /\ readLog' = <<>>
    /\ error' = ""
    /\ startLedger' = ledgerFile
    /\ startCache' = cacheFile
    /\ UNCHANGED persistent

StartRun ==
    /\ pc = "idle"
    /\ runs < MaxRuns
    /\ \E a \in Args : Started(a)
    /\ repeated' = FALSE
    /\ dateSkipped' = {}

\* the command line of a run that completed is given again at once
RepeatRun ==
    /\ pc = "done"
    /\ runs < MaxRuns
    /\ Started(args)
    /\ repeated' = TRUE
    /\ dateSkipped' = {}

\* the command line of a run that completed with --date-from is given again
\* without --date-from and without --dry-run
RerunWithoutDateFrom ==
    /\ pc = "done"
    /\ runs < MaxRuns
    /\ args.date_from # <<>>
    /\ Started([args EXCEPT !.date_from = <<>>, !.dry_run = FALSE])
    /\ repeated' = FALSE
    /\ dateSkipped' =
          LET parsed == { readLog[k].fn :
                            k \in { i \in 1..Len(readLog) : readLog[i].result = "parsed" } }
          IN  UNION { { <<f, Disk(f).items[i]>> :
                           i \in { n \in 1..Len(Disk(f).items) :
                                      DateFiltered(Disk(f).items[n], args.date_from) } } :
                      f \in parsed }

\* the process has exited: of the run only the two files are left
Exit ==
    /\ pc \in {"done", "failed"}
    /\ pc' = "idle"
    /\ args' = NoArgs
    /\ imported' = {}
    /\ all_items' = <<>>
    /\ fileIdx' = 0
    /\ book' = NoBook
    /\ session' = NoSession
    /\ imported_items' = {}
    /\ itemIdx' = 0
    /\ outcome' = <<>>
    /\ readLog' = <<>>
    /\ error' = ""
    /\ repeated' = FALSE
    /\ dateSkipped' = {}
    /\ startLedger' = ledgerFile
    /\ startCache' = cacheFile
    /\ UNCHANGED <<persistent, runs>>

(***************************************************************************)
(* read_entries(fn, imported), one call per element of args.file.          *)
(***************************************************************************)
ReadingFile ==
    /\ pc = "reading"
    /\ fileIdx <= Len(args.file)

fn == args.file[fileIdx]

Logged(result, opened, n) ==
    Append(readLog, [fn |-> fn, recorded |-> fn \in imported, result |-> result,
                     opened |-> opened, n |-> n])

\* lines 79-82: the file is skipped
ReadEntriesSkip ==
    /\ ReadingFile
    /\ ~StartsWithMtp(fn)
    /\ AlreadyImported(fn, imported)
    /\ readLog' = Logged("skipped", FALSE, 0)
    /\ fileIdx' = fileIdx + 1
    /\ UNCHANGED <<persistent, pc, args, imported, all_items, book, session,
                   imported_items, itemIdx, outcome, error, runs, repeated, dateSkipped,
                   startLedger, startCache>>

\* read_entries writing the cache file as soon as the name is recorded
ReadEntriesParsePersisting ==
    /\ ReadingFile
    /\ ~StartsWithMtp(fn)
    /\ ~AlreadyImported(fn, imported)
    /\ Disk(fn).exists /\ Disk(fn).parses
    /\ all_items' = all_items \o Disk(fn).items
    /\ imported' = imported \cup {fn}
    /\ cacheFile' = [exists |-> TRUE, ids |-> imported']
    /\ readLog' = Logged("parsed", TRUE, Len(Disk(fn).items))
    /\ fileIdx' = fileIdx + 1
    /\ UNCHANGED <<ledgerFile, pc, args, book, session, imported_items, itemIdx,
                   outcome, error, runs, repeated, dateSkipped, startLedger, startCache>>

\* lines 83-87: the file is parsed and its name recorded
ReadEntriesParse ==
    /\ ReadingFile
    /\ ~StartsWithMtp(fn)
    /\ ~AlreadyImported(fn, imported)
    /\ Disk(fn).exists /\ Disk(fn).parses
    /\ all_items' = all_items \o Disk(fn).items
    /\ imported' = imported \cup {fn}
    /\ readLog' = Logged("parsed", TRUE, Len(Disk(fn).items))
    /\ fileIdx' = fileIdx + 1
    /\ UNCHANGED <<persistent, pc, args, book, session, imported_items, itemIdx,
                   outcome, error, runs, repeated, dateSkipped, startLedger, startCache>>

\* read_entries recording the name before the file is opened and parsed
ReadEntriesRaiseRecorded ==
    /\ ReadingFile
    /\ ~StartsWithMtp(fn)
    /\ ~AlreadyImported(fn, imported)
    /\ ~(Disk(fn).exists /\ Disk(fn).parses)
    /\ imported' = imported \cup {fn}
    /\ Raise(IF Disk(fn).exists THEN "ParseError" ELSE "IOError")
    /\ readLog' = Logged("raised", Disk(fn).exists, 0)
    /\ UNCHANGED <<persistent, args, all_items, fileIdx, book, session,
                   imported_items, itemIdx, outcome, runs, repeated, dateSkipped, startLedger,
                   startCache>>

\* lines 83-84: open() or qif.parse_qif raises
ReadEntriesRaise ==
    /\ ReadingFile
    /\ ~StartsWithMtp(fn)
    /\ ~AlreadyImported(fn, imported)
    /\ ~(Disk(fn).exists /\ Disk(fn).parses)
    /\ Raise(IF Disk(fn).exists THEN "ParseError" ELSE "IOError")
    /\ readLog' = Logged("raised", Disk(fn).exists, 0)
    /\ UNCHANGED <<persistent, args, imported, all_items, fileIdx, book, session,
                   imported_items, itemIdx, outcome, runs, repeated, dateSkipped, startLedger,
                   startCache>>

\* lines 76-77, 86-87: a device source none of whose files match
ReadEntriesMtp ==
    /\ ReadingFile
    /\ StartsWithMtp(fn)
    /\ LET r == read_entries_from_mtp(MtpFiles, fn[2], imported)
       IN  /\ ~r.raised
           /\ all_items' = all_items \o r.entries
           /\ imported' = r.imported
    /\ fileIdx' = fileIdx + 1
    /\ UNCHANGED <<persistent, pc, args, book, session, imported_items, itemIdx,
                   outcome, readLog, error, runs, repeated, dateSkipped, startLedger, startCache>>

\* lines 76-77: read_entries_from_mtp raises NameError at a matching file
ReadEntriesMtpRaise ==
    /\ ReadingFile
    /\ StartsWithMtp(fn)
    /\ read_entries_from_mtp(MtpFiles, fn[2], imported).raised
    /\ Raise("NameError")
    /\ UNCHANGED <<persistent, args, imported, all_items, fileIdx, book, session,
                   imported_items, itemIdx, outcome, readLog, runs, repeated, dateSkipped,
                   startLedger, startCache>>

\* mtp.py line 19: mtp-files fails (no device attached)
ReadEntriesMtpDeviceError ==
    /\ ReadingFile
    /\ StartsWithMtp(fn)
    /\ Raise("CalledProcessError")
    /\ UNCHANGED <<persistent, args, imported, all_items, fileIdx, book, session,
                   imported_items, itemIdx, outcome, readLog, runs, repeated, dateSkipped,
                   startLedger, startCache>>

(***************************************************************************)
(* main, lines 161-163, and write_transactions_to_gnucash.                 *)
(***************************************************************************)
AllRead ==
    /\ pc = "reading"
    /\ fileIdx > Len(args.file)

\* main line 161 with no entry collected: the ledger is not touched
NoItems ==
    /\ AllRead
    /\ all_items = <<>>
    /\ pc' = "caching"
    /\ UNCHANGED <<persistent, args, imported, all_items, fileIdx, book, session,
                   imported_items, itemIdx, outcome, readLog, error, runs, repeated, dateSkipped,
                   startLedger, startCache>>

\* lines 112-120: the session is opened on the saved file
OpenSession ==
    /\ AllRead
    /\ all_items # <<>>
    /\ book' = ledgerFile
    /\ session' = [session EXCEPT !.opens = @ + 1]
    /\ imported_items' = {}
    /\ itemIdx' = 1
    /\ pc' = "writing"
    /\ UNCHANGED <<persistent, args, imported, all_items, fileIdx, outcome, readLog,
                   error, runs, repeated, dateSkipped, startLedger, startCache>>

\* line 112: Session(gnucash_file) raises (file missing or locked)
OpenSessionRaise ==
    /\ AllRead
    /\ all_items # <<>>
    /\ Raise("GnuCashBackendException")
    /\ UNCHANGED <<persistent, args, imported, all_items, fileIdx, book, session,
                   imported_items, itemIdx, outcome, readLog, runs, repeated, dateSkipped,
                   startLedger, startCache>>

Processing ==
    /\ pc = "writing"
    /\ itemIdx <= Len(all_items)

item == all_items[itemIdx]

\* lines 122-124
SkipByDate ==
    /\ Processing
    /\ DateFiltered(item, args.date_from)
    /\ outcome' = Append(outcome, "date")
    /\ itemIdx' = itemIdx + 1
    /\ UNCHANGED <<persistent, pc, args, imported, all_items, fileIdx, book, session,
                   imported_items, readLog, error, runs, repeated, dateSkipped, startLedger,
                   startCache>>

\* lines 125-128: the entry is in the book or in the in-run set
SkipDuplicate ==
    /\ Processing
    /\ ~DateFiltered(item, args.date_from)
    /\ ~ItemAlreadyInBookRaises(book, item)
    /\ \E in_book \in ItemAlreadyInBook(book, lookup_account(book.accounts, Root, item.account),
                                        item, args.currency) :
          /\ in_book \/ InRunDuplicate(item, imported_items)
          /\ outcome' = Append(outcome, IF in_book THEN "book" ELSE "run")
    /\ itemIdx' = itemIdx + 1
    /\ UNCHANGED <<persistent, pc, args, imported, all_items, fileIdx, book, session,
                   imported_items, readLog, error, runs, repeated, dateSkipped, startLedger,
                   startCache>>

\* lines 129-130: the transaction is built and committed in the session
AddTransaction ==
    /\ Processing
    /\ ~DateFiltered(item, args.date_from)
    /\ ~ItemAlreadyInBookRaises(book, item)
    /\ \E in_book \in ItemAlreadyInBook(book, lookup_account(book.accounts, Root, item.account),
                                        item, args.currency) :
          ~(in_book \/ InRunDuplicate(item, imported_items))
    /\ ~AddTransactionRaises(book, item)
    /\ book' = add_transaction(book, item, args.currency)
    /\ ledgerFile' = CommitEdit(ledgerFile, book')
    /\ imported_items' = imported_items \cup {as_tuple(item)}
    /\ outcome' = Append(outcome, "posted")
    /\ itemIdx' = itemIdx + 1
    /\ UNCHANGED <<cacheFile, pc, args, imported, all_items, fileIdx, session, readLog,
                   error, runs, repeated, dateSkipped, startLedger, startCache>>

\* the account lookup made for every entry, before the date test
ProcessItemRaiseBeforeDateFilter ==
    /\ Processing
    /\ \/ ItemAlreadyInBookRaises(book, item)
       \/ /\ ~DateFiltered(item, args.date_from)
          /\ ~ItemAlreadyInBookRaises(book, item)
          /\ \E in_book \in ItemAlreadyInBook(book,
                                lookup_account(book.accounts, Root, item.account),
                                item, args.currency) :
                ~(in_book \/ InRunDuplicate(item, imported_items))
          /\ AddTransactionRaises(book, item)
    /\ Raise(IF lookup_account(book.accounts, Root, item.account) # NoAccount
                /\ ~ItemAmount(item).ok
             THEN "InvalidOperation"
             ELSE "Account path not found")
    /\ UNCHANGED <<persistent, args, imported, all_items, fileIdx, book, session,
                   imported_items, itemIdx, outcome, readLog, runs, repeated, dateSkipped,
                   startLedger, startCache>>

\* lines 125, 129: lookup_account or Decimal raises; the exception leaves
\* write_transactions_to_gnucash and main
ProcessItemRaise ==
    /\ Processing
    /\ ~DateFiltered(item, args.date_from)
    /\ \/ ItemAlreadyInBookRaises(book, item)
       \/ /\ ~ItemAlreadyInBookRaises(book, item)
          /\ \E in_book \in ItemAlreadyInBook(book,
                                lookup_account(book.accounts, Root, item.account),
                                item, args.currency) :
                ~(in_book \/ InRunDuplicate(item, imported_items))
          /\ AddTransactionRaises(book, item)
    /\ Raise(IF lookup_account(book.accounts, Root, item.account) # NoAccount
                /\ ~ItemAmount(item).ok
             THEN "InvalidOperation"
             ELSE "Account path not found")
    /\ UNCHANGED <<persistent, args, imported, all_items, fileIdx, book, session,
                   imported_items, itemIdx, outcome, readLog, runs, repeated, dateSkipped,
                   startLedger, startCache>>

\* lines 132-137: save unless dry run, then end the session
FinishSession ==
    /\ pc = "writing"
    /\ itemIdx > Len(all_items)
    /\ ledgerFile' = SessionSave(args.dry_run, ledgerFile, book)
    /\ session' = [session EXCEPT !.saves = IF args.dry_run THEN @ ELSE @ + 1,
                                  !.ends = @ + 1]
    /\ pc' = "caching"
    /\ UNCHANGED <<cacheFile, args, imported, all_items, fileIdx, book, imported_items,
                   itemIdx, outcome, readLog, error, runs, repeated, dateSkipped, startLedger,
                   startCache>>

\* main lines 165-167: the cache file is rewritten unless dry run
SaveCache ==
    /\ pc = "caching"
    /\ cacheFile' = CacheDump(args.dry_run, cacheFile, imported)
    /\ pc' = "done"
    /\ UNCHANGED <<ledgerFile, args, imported, all_items, fileIdx, book, session,
                   imported_items, itemIdx, outcome, readLog, error, runs, repeated, dateSkipped,
                   startLedger, startCache>>

\* the process is interrupted (KeyboardInterrupt, kill) between two steps
Interrupt ==
    /\ Running
    /\ Raise("KeyboardInterrupt")
    /\ UNCHANGED <<persistent, args, imported, all_items, fileIdx, book, session,
                   imported_items, itemIdx, outcome, readLog, runs, repeated, dateSkipped,
                   startLedger, startCache>>

Next ==
    \/ StartRun
    \/ RepeatRun
    \/ RerunWithoutDateFrom
    \/ Exit
    \/ ReadEntriesSkip
    \/ ReadEntriesParse
    \/ ReadEntriesRaise
    \/ ReadEntriesMtp
    \/ ReadEntriesMtpRaise
    \/ ReadEntriesMtpDeviceError
    \/ NoItems
    \/ OpenSession
    \/ OpenSessionRaise
    \/ SkipByDate
    \/ SkipDuplicate
    \/ AddTransaction
    \/ ProcessItemRaise
    \/ FinishSession
    \/ SaveCache
    \/ Interrupt

Spec == Init /\ [][Next]_vars

(***************************************************************************)
(* write_transactions_to_gnucash explored alone, from line 120 on, over    *)
(* entries with a range of amount texts and over currencies with           *)
(* different fractions.                                                    *)
(***************************************************************************)
\* amount texts, each with the decimal it denotes as num / den (den = 0: the
\* text is no decimal)
AmountCases ==
    << [text |-> <<"1", "2", ".", "3", "4">>,      num |-> 1234, den |-> 100],
       [text |-> <<"1", "2", ",", "3", "4">>,      num |-> 1234, den |-> 100],
       [text |-> <<"-", "3", ".", "5", "0">>,      num |-> -350, den |-> 100],
       [text |-> <<"-", "0", ",", "9", "9", "5">>, num |-> -995, den |-> 1000],
       [text |-> <<"0", ".", "0", "0", "5">>,      num |-> 5,    den |-> 1000],
       [text |-> <<"7">>,                          num |-> 7,    den |-> 1],
       [text |-> <<"1", ".", "2", ".", "3">>,      num |-> 0,    den |-> 0] >>

AmountTexts == { AmountCases[i].text : i \in 1..Len(AmountCases) }

Currencies == {"EUR", "JPY"}

EngineEntries ==
    { Entry(<<2023, 1, 5, 0>>, "Pay", Checking, Food, t) : t \in AmountTexts }
    \cup { Entry(<<2023, 1, 4, 0>>, "Pay", Food, Checking, <<"7">>) }

EngineItems == UNION { [1..n -> EngineEntries] : n \in 1..MaxItems }

\* the state at line 120: the session is open on the saved file
InitEngine ==
    /\ ledgerFile \in InitialLedgers
    /\ cacheFile = [exists |-> FALSE, ids |-> {}]
    /\ pc = "writing"
    /\ args \in [file : {<<>>}, dry_run : BOOLEAN,
                 date_from : { <<>>, <<2023, 1, 5>> }, currency : Currencies]
    /\ imported = {}
    /\ all_items \in EngineItems
    /\ fileIdx = 1
    /\ book = ledgerFile
    /\ session = [opens |-> 1, saves |-> 0, ends |-> 0]
    /\ imported_items = {}
    /\ itemIdx = 1
    /\ outcome = <<>>
    /\ readLog = <<>>
    /\ error = ""
    /\ runs = 1
    /\ repeated = FALSE
    /\ dateSkipped = {}
    /\ startLedger = ledgerFile
    /\ startCache = cacheFile

NextEngine ==
    \/ SkipByDate
    \/ SkipDuplicate
    \/ AddTransaction
    \/ ProcessItemRaise
    \/ FinishSession

SpecEngine == InitEngine /\ [][NextEngine]_vars

(***************************************************************************)
(* Properties.                                                             *)
(***************************************************************************)
\* the entry a transaction of the importer was posted for, as far as the
\* ledger shows it: account, memo, day, scaled amount
PostedKey(tx) ==
    <<tx.splits[1].account, tx.description, Strftime(tx.date), tx.splits[1].value>>

ImporterTransactions(b) == {tx \in BagToSet(b.transactions) : tx.by_importer}

\* number of transactions of the importer in book b with the given key
PostedCount(b, key) ==
    LET same == {tx \in ImporterTransactions(b) : PostedKey(tx) = key}
        RECURSIVE Total(_)
        Total(S) == IF S = {} THEN 0
                    ELSE LET tx == CHOOSE x \in S : TRUE
                         IN  CopiesIn(tx, b.transactions) + Total(S \ {tx})
    IN  Total(same)

\* C1: the saved ledger never holds two transactions posted by the importer
\* for entries with the same account, memo, day and scaled amount.
C1_NeverPostedTwice ==
    \A tx \in ImporterTransactions(ledgerFile) :
        PostedCount(ledgerFile, PostedKey(tx)) = 1

\* the run in progress, or the last one, has ended
Ended == pc \in {"done", "failed"}

\* C2: a completed run with the arguments of the completed run before it,
\* on the same sources, adds nothing to the saved ledger.
C2_SecondRunPostsNothing ==
    (repeated /\ pc = "done") => ledgerFile = startLedger

(* ---- C3 ---- *)
SameTuple(i, j) == as_tuple(all_items[i]) = as_tuple(all_items[j])

\* tx shows entry e: description, day and amount on e's account
Shows(tx, e, currency) ==
    LET acc == lookup_account(AccountTree, Root, e.account)
    IN  /\ HasSplitIn(tx, acc)
        /\ tx.description = e.memo
        /\ Strftime(tx.date) = Strftime(e.date)
        /\ GncEqual(GetAccountAmount(tx, acc), to_gnc_numeric(e, currency, 1))

\* when the loop reached entry j the session's book held a transaction
\* showing it: one of the file, or one posted for an earlier entry
InBookBefore(j) ==
    \/ \E tx \in BagToSet(startLedger.transactions) : Shows(tx, all_items[j], args.currency)
    \/ \E i \in 1..(j - 1) :
          /\ outcome[i] = "posted"
          /\ Shows(NewTransaction(startLedger, all_items[i], args.currency),
                   all_items[j], args.currency)

FirstOfTuple(j) == \A i \in 1..(j - 1) : ~SameTuple(i, j)

Several(j) == \E i \in 1..Len(all_items) : i # j /\ SameTuple(i, j)

\* C3: of several collected entries with the same as_tuple() that pass the
\* date filter and are not in the book when the first is reached, the first is
\* posted and every later one is skipped; no two transactions posted in one
\* run come from entries with the same as_tuple().
C3_OnePostedPerTuple ==
    /\ \A j \in 1..Len(outcome) :
          LET first == CHOOSE i \in 1..j : SameTuple(i, j) /\ FirstOfTuple(i)
          IN  (/\ Several(j)
               /\ ~DateFiltered(all_items[j], args.date_from)
               /\ ~InBookBefore(first))
              => IF j = first THEN outcome[j] = "posted"
                              ELSE outcome[j] \in {"book", "run"}
    /\ \A i, j \in 1..Len(outcome) :
          (i < j /\ outcome[i] = "posted" /\ outcome[j] = "posted") => ~SameTuple(i, j)

\* a later entry with the tuple of a posted one is skipped by the in-run set
\* alone, the book lookup having missed it
C3_Witness ==
    \E i, j \in 1..Len(outcome) :
        /\ i < j /\ SameTuple(i, j)
        /\ ~InBookBefore(i)
        /\ outcome[i] = "posted" /\ outcome[j] = "run"

\* C4: a read_entries call on a plain file whose name is recorded in the
\* cache set returns no entry and does not open the file.
C4_RecordedSourceSkipped ==
    \A k \in 1..Len(readLog) :
        readLog[k].recorded => (~readLog[k].opened /\ readLog[k].n = 0)

\* C5: a plain file is skipped only when its own name is recorded in the
\* cache set.
C5_SkippedOnlyIfRecorded ==
    \A k \in 1..Len(readLog) :
        readLog[k].result = "skipped" => readLog[k].recorded

(* ---- C6, C7 ---- *)
Outcomes == {"date", "book", "run", "posted"}

\* C6: during and after a dry run the saved ledger and the cache file are
\* what they were when the run started, and a dry run that reaches its end
\* has put every collected entry through the date filter and the duplicate
\* checks.
C6_DryRunChangesNothing ==
    args.dry_run =>
        /\ ledgerFile = startLedger
        /\ cacheFile = startCache
        /\ pc = "done" => /\ Len(outcome) = Len(all_items)
                          /\ \A j \in 1..Len(outcome) : outcome[j] \in Outcomes
                          /\ all_items # <<>> => session.opens = 1

\* a dry run has ended after skipping by date, skipping a duplicate and
\* posting in the session, with sources read
C6_Witness ==
    /\ args.dry_run /\ pc = "done"
    /\ \E i, j, k \in 1..Len(outcome) :
          outcome[i] = "date" /\ outcome[j] = "posted" /\ outcome[k] \in {"book", "run"}
    /\ book # ledgerFile
    /\ imported # CacheLoad(cacheFile)

\* C7: as long as session.save() has not been called, and after a run that
\* stopped before it, the saved ledger and the cache file are what they were
\* when the run started.
C7_AbortedRunChangesNothing ==
    ((Running \/ pc = "failed") /\ session.saves = 0) =>
        /\ ledgerFile = startLedger
        /\ cacheFile = startCache

\* a run has failed after committing entries in the session and recording
\* a source in the cache set
C7_Witness ==
    /\ pc = "failed" /\ ~args.dry_run
    /\ session.opens = 1 /\ session.saves = 0
    /\ \E j \in 1..Len(outcome) : outcome[j] = "posted"
    /\ book # ledgerFile
    /\ imported # CacheLoad(cacheFile)

\* C8, for the runs that open the session: a run that has ended, by
\* returning or with a fatal error, and had opened the session, opened it
\* once and ended it once.
C8_SessionOpenedAndEndedOnce ==
    (Ended /\ error # "KeyboardInterrupt" /\ session.opens > 0) =>
        (session.opens = 1 /\ session.ends = 1)

(* ---- C9 ---- *)
\* the account name has a segment that is the name of no account of the ledger
MissingSegment(name) == \E i \in 1..Len(name) : name[i] \notin AccountNames

\* C9 as stated: a run in which an entry that passes the date filter names an
\* account path (account or split_category) with a missing segment fails:
\* it neither saves the ledger nor returns.
C9_AnyMissingPathIsFatal ==
    (session.saves > 0 \/ pc = "done") =>
        \A j \in 1..Len(all_items) :
            ~DateFiltered(all_items[j], args.date_from) =>
                /\ ~MissingSegment(all_items[j].account)
                /\ ~MissingSegment(all_items[j].split_category)

\* C9 amended: an entry that passes the date filter never gets through the
\* loop when its account has a missing segment, and gets through only as a
\* skipped duplicate when its split_category has one; the loop stops at the
\* entry that raises, a ledger is saved only after every entry got through,
\* and no account is created.
C9_MissingAccountIsFatal ==
    /\ \A j \in 1..Len(outcome) :
          ~DateFiltered(all_items[j], args.date_from) =>
              /\ ~MissingSegment(all_items[j].account)
              /\ MissingSegment(all_items[j].split_category)
                    => outcome[j] \in {"book", "run"}
    /\ (session.saves > 0 \/ pc = "done") => Len(outcome) = Len(all_items)
    /\ (pc = "failed" /\ error = "Account path not found") =>
          /\ session.saves = 0
          /\ ledgerFile = startLedger
          /\ Len(outcome) = itemIdx - 1
    /\ session.opens > 0 => book.accounts = AccountTree
    /\ ledgerFile.accounts = AccountTree

\* a run has failed at an entry whose account is missing, after posting
\* another entry in the session
C9_Witness ==
    /\ pc = "failed" /\ error = "Account path not found"
    /\ MissingSegment(item.account)
    /\ ~DateFiltered(item, args.date_from)
    /\ \E j \in 1..Len(outcome) : outcome[j] = "posted"
    /\ itemIdx <= Len(all_items)

(* ---- C10 ---- *)
\* day a is before day b, on <<y, m, d>>
DayBefore(a, b) ==
    \/ a[1] < b[1]
    \/ a[1] = b[1] /\ a[2] < b[2]
    \/ a[1] = b[1] /\ a[2] = b[2] /\ a[3] < b[3]

\* C10: with date_from set, an entry dated date_from is not skipped by the
\* date filter, an entry of an earlier day is, and no transaction posted in
\* the run is dated before date_from.
C10_DateFilterBoundary ==
    args.date_from # <<>> =>
        /\ \A j \in 1..Len(outcome) :
              /\ Strftime(all_items[j].date) = args.date_from => outcome[j] # "date"
              /\ DayBefore(Strftime(all_items[j].date), args.date_from)
                    => outcome[j] = "date"
        /\ session.opens > 0 =>
              \A tx \in BagToSet(book.transactions) :
                  DayBefore(Strftime(tx.date), args.date_from)
                     => CopiesIn(tx, book.transactions)
                           = CopiesIn(tx, startLedger.transactions)

\* in one run an entry of the day before date_from was skipped by the filter
\* and an entry dated date_from was posted
C10_Witness ==
    /\ args.date_from # <<>>
    /\ \E i, j \in 1..Len(outcome) :
          /\ DayBefore(Strftime(all_items[i].date), args.date_from)
          /\ outcome[i] = "date"
          /\ Strftime(all_items[j].date) = args.date_from
          /\ outcome[j] = "posted"

\* the entries of all_items posted so far
PostedEntries == { j \in 1..Len(outcome) : outcome[j] = "posted" }

\* C11: every transaction add_transaction committed has exactly two splits,
\* the first on the entry's account and the second on its split_category,
\* with the same denominator and values that sum to zero, whatever the
\* amount text and the fraction of the currency.
C11_BalancedPosting ==
    /\ \A tx \in ImporterTransactions(book) :
          /\ Len(tx.splits) = 2
          /\ tx.splits[1].value.denom = tx.splits[2].value.denom
          /\ tx.splits[1].value.num + tx.splits[2].value.num = 0
          /\ \E j \in PostedEntries :
                /\ tx.description = all_items[j].memo
                /\ tx.splits[1].account = Root \o all_items[j].account
                /\ tx.splits[2].account = Root \o all_items[j].split_category
    /\ \A j \in PostedEntries :
          \E tx \in ImporterTransactions(book) :
             /\ tx.date = all_items[j].date
             /\ tx.splits[1].account = Root \o all_items[j].account
             /\ tx.splits[2].account = Root \o all_items[j].split_category

\* a posted transaction with a nonzero amount, in the currency of fraction 1
C11_Witness ==
    /\ args.currency = "JPY"
    /\ \E tx \in ImporterTransactions(book) : tx.splits[1].value.num < 0

\* n / d truncated toward zero, d > 0
TruncDiv(n, d) == IF n >= 0 THEN n \div d ELSE -((-n) \div d)

AmountCase(text) ==
    AmountCases[CHOOSE i \in 1..Len(AmountCases) : AmountCases[i].text = text]

\* C12: for an amount text denoting the decimal d, with "." or "," as the
\* separator, the posted splits carry trunc(d * fraction) on the entry's
\* account and its negation on the split_category, over the denominator
\* fraction.
C12_AmountScaling ==
    \A j \in PostedEntries :
       LET c        == AmountCase(all_items[j].split_amount)
           fraction == GetFraction(args.currency)
           scaled   == TruncDiv(c.num * fraction, c.den)
       IN  /\ c.den > 0
           /\ \E tx \in ImporterTransactions(book) :
                 /\ tx.date = all_items[j].date
                 /\ tx.splits[1].account = Root \o all_items[j].account
                 /\ tx.splits[1].value = GncNumeric(scaled, fraction)
                 /\ tx.splits[2].value = GncNumeric(-scaled, fraction)

\* "-0,995" posted with fraction 100: -99 and 99, the fractional part dropped
C12_Witness ==
    \E j \in PostedEntries :
       /\ all_items[j].split_amount = <<"-", "0", ",", "9", "9", "5">>
       /\ args.currency = "EUR"
       /\ \E tx \in ImporterTransactions(book) :
             tx.splits[1].value = GncNumeric(-99, 100)

\* C13: an entry that passes the date filter is skipped whenever its account
\* holds any transaction, of the file or committed earlier in the session,
\* with the entry's memo as description, posted on the entry's day with the
\* entry's amount on that account, also when the account holds other
\* transactions with that description.
C13_AnyMatchingTransactionSkips ==
    \A j \in 1..Len(outcome) :
        (~DateFiltered(all_items[j], args.date_from) /\ InBookBefore(j))
            => outcome[j] \in {"book", "run"}

\* the plain files parsed so far in this run
ParsedFiles == { readLog[k].fn : k \in { i \in 1..Len(readLog) : readLog[i].result = "parsed" } }

ReadErrors == {"IOError", "ParseError", "NameError", "CalledProcessError"}

\* C14: a source's name enters the cache set only once its content has been
\* retrieved and parsed: the set is what was loaded plus the sources parsed in
\* this run, and when opening, retrieving or parsing a source fails its name
\* is neither in the set nor in the cache file, which the failed run leaves
\* as it was.
C14_RecordedOnlyAfterParse ==
    /\ pc # "idle" => imported = CacheLoad(startCache) \cup ParsedFiles
    /\ \A k \in 1..Len(readLog) :
          (readLog[k].result = "raised" /\ ~readLog[k].recorded)
              => (readLog[k].fn \notin imported /\ readLog[k].fn \notin cacheFile.ids)
    /\ (pc = "failed" /\ error \in ReadErrors) => cacheFile = startCache

\* parsing the second source fails after the first was parsed and recorded
C14_Witness ==
    /\ pc = "failed" /\ error = "ParseError"
    /\ ParsedFiles # {}
    /\ \E k \in 1..Len(readLog) : readLog[k].result = "raised" /\ readLog[k].opened

ItemErrors == {"Account path not found", "InvalidOperation"}

\* C15: the date filter comes before the duplicate checks and the account
\* lookups: an entry dated before date_from is skipped by the filter, and no
\* lookup made for it ends the run, also when its account does not exist.
C15_DateFilterFirst ==
    /\ \A j \in 1..Len(outcome) :
          DateFiltered(all_items[j], args.date_from) => outcome[j] = "date"
    /\ (pc = "failed" /\ error \in ItemErrors)
          => ~DateFiltered(all_items[itemIdx], args.date_from)

\* a run that completed and saved although an entry dated before date_from
\* names an account that does not exist
C15_Witness ==
    /\ pc = "done" /\ session.saves = 1
    /\ \E j \in 1..Len(outcome) :
          /\ outcome[j] = "date"
          /\ MissingSegment(all_items[j].account)

\* the entries of the QIF files on the device
MtpDisk(filename) ==
    CASE filename = <<"a.qif">> -> <<rent4, coffee5>>
      [] filename = <<"e.qif">> -> <<coffee6>>
      [] OTHER                  -> <<>>

RECURSIVE NewMatchingFiles(_, _, _)
\* the filenames of the device, in its order, that match the pattern and are
\* not in the cache set
NewMatchingFiles(files, pattern, imported_) ==
    IF files = <<>> THEN <<>>
    ELSE (IF RegexMatch(pattern, files[1][2]) /\ files[1][2] \notin imported_
          THEN <<files[1][2]>> ELSE <<>>)
         \o NewMatchingFiles(Tail(files), pattern, imported_)

RECURSIVE EntriesOf(_)
EntriesOf(filenames) ==
    IF filenames = <<>> THEN <<>>
    ELSE MtpDisk(filenames[1]) \o EntriesOf(Tail(filenames))

\* C16: a device source whose device can be listed yields, in the device's
\* order, exactly the entries of the files that match the pattern and are not
\* in the cache set, and adds exactly those filenames to the set.
C16_MtpReturnsNewMatchingFiles ==
    [][ (/\ ReadingFile
         /\ StartsWithMtp(fn)
         /\ pc' # "reading" \/ fileIdx' # fileIdx
         /\ error' \notin {"CalledProcessError", "KeyboardInterrupt"})
        => LET new == NewMatchingFiles(MtpFiles, fn[2], imported)
           IN  /\ pc' = "reading"
               /\ all_items' = all_items \o EntriesOf(new)
               /\ imported' = imported \cup { new[i] : i \in 1..Len(new) } ]_vars

\* C17: when no exception ends the run, the loop handles the collected
\* entries one at a time in their order, each entry ends as skipped (by the
\* date filter or as a duplicate) or as posted, one transaction being added
\* per posted entry, and the loop is followed by session.save() when dry_run
\* is off and by no save when it is on; the session is then ended.
C17_EveryEntryHandled ==
    /\ pc = "writing" => (Len(outcome) = itemIdx - 1 /\ itemIdx <= Len(all_items) + 1)
    /\ session.ends = 1 =>
          /\ Len(outcome) = Len(all_items)
          /\ \A j \in 1..Len(outcome) : outcome[j] \in Outcomes
          /\ \A j \in PostedEntries :
                \E tx \in ImporterTransactions(book) : Shows(tx, all_items[j], args.currency)
          /\ BagCardinality(book.transactions)
                = BagCardinality(startLedger.transactions) + Cardinality(PostedEntries)
          /\ IF args.dry_run
             THEN session.saves = 0 /\ ledgerFile = startLedger
             ELSE session.saves = 1 /\ ledgerFile = book

\* a saving run that reached its end with entries posted, skipped by the date
\* filter and skipped as duplicates
C17_Witness ==
    /\ pc = "done" /\ ~args.dry_run /\ session.saves = 1 /\ session.ends = 1
    /\ \E i, j, k \in 1..Len(outcome) :
          outcome[i] = "posted" /\ outcome[j] = "date" /\ outcome[k] \in {"book", "run"}

RECURSIVE CollectedFrom(_)
\* the entries of the files a read log shows as parsed, in the order of the log
CollectedFrom(log) ==
    IF log = <<>> THEN <<>>
    ELSE (IF log[1].result = "parsed" THEN Disk(log[1].fn).items ELSE <<>>)
         \o CollectedFrom(Tail(log))

\* C18: the cache file is written only by a run that is not a dry run and,
\* when entries were collected, only after session.save() completed; every
\* name the run adds to the file is that of a source parsed in the run, and
\* each entry of these sources was handled: posted and in the saved ledger,
\* skipped as a duplicate, or skipped by the date filter.
C18_CacheWrittenAfterSave ==
    cacheFile # startCache =>
        /\ ~args.dry_run
        /\ all_items # <<>> =>
              (session.saves = 1 /\ session.ends = 1 /\ ledgerFile = book)
        /\ CacheLoad(cacheFile) \ CacheLoad(startCache) \subseteq ParsedFiles
        /\ all_items = CollectedFrom(readLog)
        /\ Len(outcome) = Len(all_items)
        /\ \A j \in 1..Len(outcome) :
              /\ outcome[j] \in Outcomes
              /\ outcome[j] = "posted" =>
                    \E tx \in ImporterTransactions(ledgerFile) :
                       Shows(tx, all_items[j], args.currency)

\* the cache file has gained the name of a source with a posted entry and an
\* entry skipped by the date filter
C18_Witness ==
    /\ CacheLoad(cacheFile) \ CacheLoad(startCache) # {}
    /\ \E i, j \in 1..Len(outcome) : outcome[i] = "posted" /\ outcome[j] = "date"

\* C19: the set stored in the cache file only grows: at every point of a run
\* it includes the set stored when the run started, and after a completed
\* run that is not a dry run it is that set plus the names of the sources
\* parsed in the run; a completed dry run leaves the file as it was.
C19_CacheOnlyGrows ==
    /\ startCache.ids \subseteq cacheFile.ids
    /\ startCache.exists => cacheFile.exists
    /\ pc = "done" =>
          IF args.dry_run
          THEN cacheFile = startCache
          ELSE cacheFile = [exists |-> TRUE, ids |-> startCache.ids \cup ParsedFiles]

\* a completed run has added a name to a cache file that already held one
C19_Witness ==
    /\ pc = "done" /\ ~args.dry_run
    /\ startCache.ids # {}
    /\ cacheFile.ids \ startCache.ids # {}

\* C20 as stated: an entry the date filter skipped is not lost: once a later
\* run without --date-from and without --dry-run, naming the same sources,
\* has completed, the saved ledger holds a transaction showing the entry.
C20_DateSkippedEntryPostedLater ==
    pc = "done" =>
        \A se \in dateSkipped :
            \E tx \in BagToSet(ledgerFile.transactions) : Shows(tx, se[2], args.currency)

\* C20: an entry the date filter skipped is in the saved ledger after a later
\* completed run without --date-from and without --dry-run that names the
\* same sources, provided that run parses the entry's source again; it does
\* not when the source's name, recorded by the first run, makes it skip the
\* file.
C20_DateSkippedEntryPostedIfReadAgain ==
    pc = "done" =>
        \A se \in dateSkipped :
            se[1] \in ParsedFiles =>
                \E tx \in BagToSet(ledgerFile.transactions) : Shows(tx, se[2], args.currency)

\* the second run parsed the source again and posted the entry the first
\* run had skipped by the date filter
C20_Witness ==
    /\ pc = "done"
    /\ \E se \in dateSkipped :
          /\ se[1] \in ParsedFiles
          /\ \E j \in PostedEntries : all_items[j] = se[2]

====
